---- MODULE Spec2Model ----
(***************************************************************************)
(* Best-Math: the page collection, the insertion handlers and the live     *)
(* preview of the two editor variants, src/bestmath.py (multi-page) and    *)
(* src/sourcecode.py (single editor).                                      *)
(*                                                                         *)
(* One action is one GUI handler run to its end, every Qt signal it fires  *)
(* included: QListWidget.currentRowChanged is connected to                 *)
(* QStackedWidget.setCurrentIndex (bestmath.py:548) and                    *)
(* QStackedWidget.currentChanged to MainWindow._update_preview             *)
(* (bestmath.py:592), so a handler that touches the page list runs the     *)
(* preview slot in the middle of its own body.                             *)
(***************************************************************************)
EXTENDS Integers, Sequences, FiniteSets, TLC

VARIABLES
    variant,      \* which program runs: "bestmath" or "sourcecode"
    page_list,    \* PagesPanel.page_list: the page names, in order
    list_row,     \* page_list.currentRow(), -1 when there is none
    page_stack,   \* PagesPanel.page_stack: the editor widgets, in order
    stack_index,  \* page_stack.currentIndex(), -1 when there is none
    editors,      \* every QTextEdit page ever constructed, by creation number
    editor,       \* sourcecode.py's MainWindow.editor
    preview,      \* MainWindow.preview's document
    clipboard,    \* the system clipboard
    disk,         \* the markup last written by save_document, NoFile if none
    raised,       \* the Python exceptions that have left a handler or slot
    aborted,      \* TRUE once the process was terminated (qFatal)
    last,         \* the handler that ran last: [op, input, notice, image];
                  \* input is what the user gave it, notice the message box
                  \* it showed, image the scaling insert_image did
    edits,        \* number of buffer edits made so far
    open_dialog,  \* the modal dialog a handler is waiting in, NoDialog if none
    twin          \* a sourcecode.py window run side by side with a one-page
                  \* bestmath.py: [editor, preview, disk, raised, aborted]

vars == <<variant, page_list, list_row, page_stack, stack_index,
          editors, editor, preview, clipboard, disk, raised, aborted, last, edits,
          open_dialog, twin>>

-----------------------------------------------------------------------------
(* Bounds of the model *)

\* QTextEdit pages constructed in one run of bestmath.py
MaxEditors == 3

\* buffer edits (insertions) in one run of the page collection (Spec)
MaxEdits == 1

\* buffer edits (typing, insertion, loading, cut, paste) in one run of the
\* editing and file specifications
MaxKeys == 2

\* artists on the axes of one GraphDialog before the user stops adding
MaxPlots == 2

\* semicolon-separated segments in a text typed into the points field
MaxPairs == 2

-----------------------------------------------------------------------------
(* Values *)

None == 0                       \* Python's None / a null widget
NoFile == <<"no file">>         \* nothing written yet
NoDialog == [kind |-> "none"]   \* no dialog.exec() is running
NoImage == <<>>                 \* insert_image did not get to the scaling

\* add_page's title argument: absent (None), the bool QPushButton.clicked
\* passes (False), an empty string, a real title
NoTitle == "<None>"
Unchecked == "<False>"
Titles == {NoTitle, Unchecked, "", "Notes"}

\* what the user can type
Chars == {"a"}

\* the bitmaps the renderers hand to insertImage
Artifacts == {"latex", "graph", "image", "diagram"}
NullImage == "null image"

\* an image element whose bitmap the document does not hold: Qt draws its
\* stock file icon in its place
Missing(a) ==
    CASE a = "latex"   -> "missing latex"
      [] a = "graph"   -> "missing graph"
      [] a = "image"   -> "missing image"
      [] a = "diagram" -> "missing diagram"

\* the image elements a document can contain
Images == Artifacts \cup {Missing(a) : a \in Artifacts}

\* the name of an image element: the artifact it refers to
ImageName(x) == CHOOSE a \in Artifacts : x = a \/ x = Missing(a)

Alignments == {"Left", "Center", "Right"}

\* f"Page {index}"
DefaultNames == <<"Page 1", "Page 2", "Page 3", "Page 4", "Page 5", "Page 6",
                  "Page 7", "Page 8">>

-----------------------------------------------------------------------------
(* Sequences *)

RemoveAt(s, i) == SubSeq(s, 1, i - 1) \o SubSeq(s, i + 1, Len(s))

InsertSeqAt(s, p, items) == SubSeq(s, 1, p) \o items \o SubSeq(s, p + 1, Len(s))

-----------------------------------------------------------------------------
(* Python str and number parsing.  A text is the sequence of its           *)
(* characters.                                                             *)

\* text.strip()
strip(text) ==
    LET inked == {i \in 1..Len(text) : text[i] # " "}
    IN  IF inked = {} THEN <<>>
        ELSE SubSeq(text, CHOOSE i \in inked : \A j \in inked : i <= j,
                          CHOOSE i \in inked : \A j \in inked : i >= j)

\* text.replace(old, "") for a single character old
replace(text, old) == SelectSeq(text, LAMBDA c : c # old)

\* text.split(sep): the pieces between the separators, empty ones included
RECURSIVE split(_, _)
split(text, sep) ==
    LET at == {i \in 1..Len(text) : text[i] = sep}
    IN  IF at = {} THEN <<text>>
        ELSE LET i == CHOOSE k \in at : \A j \in at : k <= j
             IN  <<SubSeq(text, 1, i - 1)>> \o split(SubSeq(text, i + 1, Len(text)), sep)

\* text.split(sep, maxsplit=1)
split_once(text, sep) ==
    LET at == {i \in 1..Len(text) : text[i] = sep}
    IN  IF at = {} THEN <<text>>
        ELSE LET i == CHOOSE k \in at : \A j \in at : k <= j
             IN  <<SubSeq(text, 1, i - 1), SubSeq(text, i + 1, Len(text))>>

Digits == {"0", "1", "2", "3", "4", "5", "6", "7", "8", "9"}

DigitValue(c) ==
    CASE c = "0" -> 0 [] c = "1" -> 1 [] c = "2" -> 2 [] c = "3" -> 3 [] c = "4" -> 4
      [] c = "5" -> 5 [] c = "6" -> 6 [] c = "7" -> 7 [] c = "8" -> 8 [] c = "9" -> 9

\* the number a run of digits writes
RECURSIVE DecimalValue(_)
DecimalValue(digits) ==
    IF digits = <<>> THEN 0
    ELSE 10 * DecimalValue(SubSeq(digits, 1, Len(digits) - 1)) + DigitValue(digits[Len(digits)])

IsDigits(text) == \A i \in 1..Len(text) : text[i] \in Digits

\* a fraction without its trailing zeros
RECURSIVE TrimZeros(_)
TrimZeros(digits) ==
    IF digits # <<>> /\ digits[Len(digits)] = "0"
    THEN TrimZeros(SubSeq(digits, 1, Len(digits) - 1)) ELSE digits

ValueError == "ValueError"

\* a call that raised ValueError / a call that returned value
Raised == [ok |-> FALSE, value |-> <<>>]
Returned(value) == [ok |-> TRUE, value |-> value]

\* float(text), for texts of digits, points, blanks, brackets, commas and
\* the letters a, b, c (no sign, exponent, inf or nan can be written):
\* surrounding blanks are ignored; digits with at most one point and at
\* least one digit.  The value is <<whole part, fraction
\* digits>>, so that 2, 2. and 2.0 are one number.
float(text) ==
    LET t == strip(text)
        parts == split(t, ".")
    IN  IF Len(parts) > 2 \/ ~IsDigits(replace(t, ".")) \/ replace(t, ".") = <<>>
        THEN Raised
        ELSE Returned(<<DecimalValue(parts[1]),
                        IF Len(parts) = 2 THEN TrimZeros(parts[2]) ELSE <<>>>>)

\* int(text): surrounding blanks are ignored; digits after an optional sign
int(text) ==
    LET t == strip(text)
        signed == t # <<>> /\ t[1] \in {"-", "+"}
        digits == IF signed THEN Tail(t) ELSE t
    IN  IF digits = <<>> \/ ~IsDigits(digits) THEN Raised
        ELSE IF signed /\ t[1] = "-" THEN Returned(0 - DecimalValue(digits))
        ELSE Returned(DecimalValue(digits))


-----------------------------------------------------------------------------
(* QTextEdit: a buffer is one paragraph of inline items (characters and    *)
(* images) with a paragraph alignment, a cursor and an undo history.  Its  *)
(* document keeps the bitmaps given to insertImage as named resources; an  *)
(* image element only carries the name.  A bitmap is named after the kind  *)
(* of artifact it is: two renderings of one kind are not told apart.       *)

Snapshot(ed) == [doc |-> ed.doc, pos |-> ed.pos, align |-> ed.align]

\* QTextEdit(self): an empty document, cursor at 0
NewEditor ==
    [doc |-> <<>>, pos |-> 0, align |-> "Left", undo |-> <<>>, redo |-> <<>>,
     resources |-> {}, alive |-> TRUE]

\* a widget after its deferred deletion ran
Destroyed ==
    [doc |-> <<>>, pos |-> 0, align |-> "Left", undo |-> <<>>, redo |-> <<>>,
     resources |-> {}, alive |-> FALSE]

\* an edit made through a cursor: recorded for undo, redo history dropped
Edited(ed, doc, pos, align) ==
    [ed EXCEPT !.doc = doc, !.pos = pos, !.align = align,
               !.undo = Append(ed.undo, Snapshot(ed)), !.redo = <<>>]

\* variant of insertImage: the cursor stays in front of the new image
insertImage_cursor_stays(ed, image) ==
    IF image = NullImage THEN ed
    ELSE [Edited(ed, InsertSeqAt(ed.doc, ed.pos, <<image>>), ed.pos, ed.align)
             EXCEPT !.resources = ed.resources \cup {image}]

\* cursor.insertImage(image): a null image is refused; anything else is
\* added to the document's resources and an image element of that name is
\* put at the cursor, which moves past it
insertImage(ed, image) ==
    IF image = NullImage THEN ed
    ELSE [Edited(ed, InsertSeqAt(ed.doc, ed.pos, <<image>>), ed.pos + 1, ed.align)
             EXCEPT !.resources = ed.resources \cup {image}]

\* cursor.setBlockFormat(block_format) after block_format.setAlignment(alignment)
setBlockFormat(ed, alignment) == Edited(ed, ed.doc, ed.pos, alignment)

\* a key press in the editor
insertText(ed, ch) == Edited(ed, InsertSeqAt(ed.doc, ed.pos, <<ch>>), ed.pos + 1, ed.align)

\* editor.undo() / editor.redo()
undo(ed) ==
    IF ed.undo = <<>> THEN ed
    ELSE LET s == ed.undo[Len(ed.undo)]
         IN  [ed EXCEPT !.doc = s.doc, !.pos = s.pos, !.align = s.align,
                        !.undo = SubSeq(ed.undo, 1, Len(ed.undo) - 1),
                        !.redo = Append(ed.redo, Snapshot(ed))]

redo(ed) ==
    IF ed.redo = <<>> THEN ed
    ELSE LET s == ed.redo[Len(ed.redo)]
         IN  [ed EXCEPT !.doc = s.doc, !.pos = s.pos, !.align = s.align,
                        !.redo = SubSeq(ed.redo, 1, Len(ed.redo) - 1),
                        !.undo = Append(ed.undo, Snapshot(ed))]

\* editor.cut() with the items from..to-1 selected; nothing selected: no-op
cut(ed, from, to) ==
    IF from >= to THEN ed
    ELSE Edited(ed, SubSeq(ed.doc, 1, from) \o SubSeq(ed.doc, to + 1, Len(ed.doc)),
                from, ed.align)

\* an image element as the document with these resources holds it
Resolve(x, resources) ==
    IF x \notin Images THEN x
    ELSE IF ImageName(x) \in resources THEN ImageName(x) ELSE Missing(ImageName(x))

\* editor.paste(): nothing on the clipboard: no-op; the clipboard carries
\* image elements by name
paste(ed, clip) ==
    IF clip = <<>> THEN ed
    ELSE Edited(ed, InsertSeqAt(ed.doc, ed.pos,
                                [i \in 1..Len(clip) |-> Resolve(clip[i], ed.resources)]),
                ed.pos + Len(clip), ed.align)

\* editor.clear(): empties the document and its undo history
clear(ed) == [ed EXCEPT !.doc = <<>>, !.pos = 0, !.align = "Left",
                        !.undo = <<>>, !.redo = <<>>]

-----------------------------------------------------------------------------
(* Markup.  toHtml writes a document as a token sequence, an image as a    *)
(* tag with its name and without its bitmap; setHtml reads a token         *)
(* sequence back, leniently: it keeps the text and image tokens it knows,  *)
(* takes the alignment of the first paragraph tag, drops the rest.         *)

ImageTag(a) ==
    CASE a = "latex"   -> "<img latex>"
      [] a = "graph"   -> "<img graph>"
      [] a = "image"   -> "<img image>"
      [] a = "diagram" -> "<img diagram>"

ParagraphTag(al) ==
    CASE al = "Left"   -> "<p left>"
      [] al = "Center" -> "<p center>"
      [] al = "Right"  -> "<p right>"

ItemToken(x) == IF x \in Images THEN ImageTag(ImageName(x)) ELSE x

ImageTags == {ImageTag(a) : a \in Artifacts}
ParagraphTags == {ParagraphTag(al) : al \in Alignments}

TokenItem(t, resources) ==
    IF t \in ImageTags
    THEN Resolve(CHOOSE a \in Artifacts : ImageTag(a) = t, resources)
    ELSE t

IsContent(t) == t \in ImageTags \/ t \in Chars \/ t \in {"Live Preview", "Live Notes"}

\* editor.toHtml()
toHtml(ed) ==
    <<"<html>", "<body>", ParagraphTag(ed.align)>> \o [i \in 1..Len(ed.doc) |-> ItemToken(ed.doc[i])]
        \o <<"</p>", "</body>", "</html>">>

\* the document QTextDocument builds from markup, given the resources it
\* holds
Parse(html, resources) ==
    LET ptags == SelectSeq(html, LAMBDA t : t \in ParagraphTags)
        kept  == SelectSeq(html, IsContent)
    IN  [doc   |-> [i \in 1..Len(kept) |-> TokenItem(kept[i], resources)],
         align |-> IF ptags = <<>> THEN "Left"
                   ELSE CHOOSE al \in Alignments : ParagraphTag(al) = ptags[1]]

\* editor.setHtml(content): replaces the document, resets cursor and
\* history, keeps the resources
setHtml(ed, html) ==
    [ed EXCEPT !.doc = Parse(html, ed.resources).doc, !.pos = 0,
               !.align = Parse(html, ed.resources).align,
               !.undo = <<>>, !.redo = <<>>]

\* preview.setHtml(html): the preview pane is a document of its own, no
\* bitmap is ever added to it
Preview(html) == Parse(html, {})

\* the startup text of the preview pane
Placeholder(v) ==
    IF v = "bestmath"
    THEN Preview(<<"<h3>", "Live Preview", "</h3>", "<p>", "</p>">>)
    ELSE Preview(<<"<h3>", "Live Notes", "</h3>", "<p>", "</p>">>)

\* preview.clear()
EmptyDocument == [doc |-> <<>>, align |-> "Left"]

-----------------------------------------------------------------------------
(* The running program, as one record threaded through a handler's steps.  *)
(* excepthook: the host process installed sys.excepthook; connected:       *)
(* MainWindow.__init__ has wired page_stack.currentChanged to              *)
(* _update_preview; doomed: widgets with deleteLater() pending.            *)

World(hook) ==
    [page_list |-> page_list, list_row |-> list_row,
     page_stack |-> page_stack, stack_index |-> stack_index,
     editors |-> editors, editor |-> editor, preview |-> preview,
     raised |-> raised, aborted |-> aborted, excepthook |-> hook,
     notice |-> "", connected |-> TRUE, doomed |-> {},
     dialog |-> open_dialog, image |-> NoImage]

\* a Python exception leaves a slot that Qt called: PyQt6 hands it to an
\* installed sys.excepthook and goes on, or, with none installed, calls
\* qFatal(), which ends the process
Raise(w, exception) ==
    [w EXCEPT !.raised = w.raised \cup {exception}, !.aborted = ~w.excepthook]

RuntimeError == "RuntimeError: No editor available"

\* page_stack.currentWidget()
currentWidget(w) ==
    IF w.stack_index >= 0 /\ w.stack_index < Len(w.page_stack)
    THEN w.page_stack[w.stack_index + 1] ELSE None

\* PagesPanel.current_editor raises RuntimeError("No editor available")
NoEditorAvailable(w) == currentWidget(w) = None

\* MainWindow._update_preview: self.preview.setHtml(self.current_editor().toHtml())
update_preview(w) ==
    IF w.aborted THEN w
    ELSE IF NoEditorAvailable(w) THEN Raise(w, RuntimeError)
    ELSE [w EXCEPT !.preview = Preview(toHtml(w.editors[currentWidget(w)]))]

\* variant of currentChanged: line 592 missing, no slot on the signal
currentChanged_unconnected(w) == w

\* QStackedWidget.currentChanged(index) and the slot connected to it
currentChanged(w) == IF w.connected THEN update_preview(w) ELSE w

\* QStackedWidget.setCurrentIndex(index): ignored when index names no widget
\* or the current one
setCurrentIndex(w, index) ==
    IF w.aborted \/ index < 0 \/ index >= Len(w.page_stack) \/ index = w.stack_index
    THEN w
    ELSE currentChanged([w EXCEPT !.stack_index = index])

\* QStackedWidget.addWidget(widget): the first widget added becomes current
addWidget(w, widget) ==
    IF w.aborted THEN w
    ELSE LET w1 == [w EXCEPT !.page_stack = Append(w.page_stack, widget)]
         IN  IF w.stack_index < 0 THEN setCurrentIndex(w1, Len(w1.page_stack) - 1)
             ELSE w1

\* variant of removeWidget: the current index is not moved down when a widget
\* in front of the current one goes
removeWidget_keeps_index(w, index) ==
    IF w.aborted \/ index < 0 \/ index >= Len(w.page_stack) THEN w
    ELSE LET rest == RemoveAt(w.page_stack, index + 1)
             w1 == [w EXCEPT !.page_stack = rest]
         IN  IF index = w.stack_index
             THEN IF Len(rest) > 0
                  THEN setCurrentIndex([w1 EXCEPT !.stack_index = -1],
                                       IF index = Len(rest) THEN index - 1 ELSE index)
                  ELSE currentChanged([w1 EXCEPT !.stack_index = -1])
             ELSE w1

\* QStackedWidget.removeWidget(widget) at position index: removing the current
\* widget makes its successor current (its predecessor when it was last), and
\* announces -1 when the stack became empty
removeWidget(w, index) ==
    IF w.aborted \/ index < 0 \/ index >= Len(w.page_stack) THEN w
    ELSE LET rest == RemoveAt(w.page_stack, index + 1)
             w1 == [w EXCEPT !.page_stack = rest]
         IN  IF index = w.stack_index
             THEN IF Len(rest) > 0
                  THEN setCurrentIndex([w1 EXCEPT !.stack_index = -1],
                                       IF index = Len(rest) THEN index - 1 ELSE index)
                  ELSE currentChanged([w1 EXCEPT !.stack_index = -1])
             ELSE IF index < w.stack_index
                  THEN [w1 EXCEPT !.stack_index = w.stack_index - 1]
                  ELSE w1

\* widget.deleteLater(): the widget is destroyed when control returns to the
\* event loop
deleteLater(w, widget) ==
    IF w.aborted THEN w ELSE [w EXCEPT !.doomed = w.doomed \cup {widget}]

\* variant of currentRowChanged: line 548 missing, no slot on the signal
currentRowChanged_unconnected(w, row) == w

\* QListWidget.currentRowChanged(row) and the slot connected to it (line 548)
currentRowChanged(w, row) == setCurrentIndex(w, row)

\* QListWidget.setCurrentRow(row)
setCurrentRow(w, row) ==
    IF w.aborted \/ row = w.list_row THEN w
    ELSE LET r == IF row >= 0 /\ row < Len(w.page_list) THEN row ELSE -1
         IN  IF r = w.list_row THEN w
             ELSE currentRowChanged([w EXCEPT !.list_row = r], r)

\* QListWidget.addItem(name): appended, the current row stays
addItem(w, name) ==
    IF w.aborted THEN w ELSE [w EXCEPT !.page_list = Append(w.page_list, name)]

\* QListWidget.takeItem(row).  A single-selection view that is about to lose
\* its current row first makes the next row current (the previous row when
\* there is no next), while the row is still in the list; the removal then
\* shifts the rows behind it up without a signal.
takeItem(w, row) ==
    IF w.aborted \/ row < 0 \/ row >= Len(w.page_list) THEN w
    ELSE LET n == Len(w.page_list)
             w1 == IF row # w.list_row THEN w
                   ELSE IF n = 1 THEN [w EXCEPT !.list_row = -1]
                   ELSE IF row + 1 < n THEN setCurrentRow(w, row + 1)
                   ELSE setCurrentRow(w, row - 1)
         IN  IF w1.aborted THEN w1
             ELSE [w1 EXCEPT !.page_list = RemoveAt(w.page_list, row + 1),
                             !.list_row = IF w1.list_row > row THEN w1.list_row - 1
                                          ELSE w1.list_row]

\* QListWidget.clear(): the current row is unset, then the rows go
clearList(w) ==
    IF w.aborted THEN w
    ELSE LET w1 == IF w.list_row = -1 THEN w
                   ELSE currentRowChanged([w EXCEPT !.list_row = -1], -1)
         IN  IF w1.aborted THEN w1 ELSE [w1 EXCEPT !.page_list = <<>>]

-----------------------------------------------------------------------------
(* PagesPanel *)

\* title or f"Page {index}"
Truthy(title) == title \notin {NoTitle, Unchecked, ""}

PageName(title, index) == IF Truthy(title) THEN title ELSE DefaultNames[index]

\* variant of add_page: the new row is not selected (line 560 missing)
add_page_not_selected(w, title) ==
    IF w.aborted THEN w
    ELSE LET index == Len(w.page_list) + 1
             name == PageName(title, index)
             w1 == addItem(w, name)
             id == Len(w1.editors) + 1
             w2 == [w1 EXCEPT !.editors = Append(w1.editors, NewEditor)]
         IN  addWidget(w2, id)

\* PagesPanel.add_page
add_page(w, title) ==
    IF w.aborted THEN w
    ELSE LET index == Len(w.page_list) + 1
             name == PageName(title, index)
             w1 == addItem(w, name)
             id == Len(w1.editors) + 1
             w2 == [w1 EXCEPT !.editors = Append(w1.editors, NewEditor)]
             w3 == addWidget(w2, id)
         IN  setCurrentRow(w3, Len(w3.page_list) - 1)

\* variant of delete_page: the guard lets the only page go (count < 1)
delete_page_last_too(w) ==
    LET row == w.list_row
    IN  IF w.aborted \/ row < 0 \/ Len(w.page_list) < 1 THEN w
        ELSE LET w1 == takeItem(w, row)
                 widget == IF row < Len(w1.page_stack) THEN w1.page_stack[row + 1] ELSE None
                 w2 == removeWidget(w1, row)
                 w3 == IF widget = None THEN Raise(w2, "AttributeError")
                       ELSE deleteLater(w2, widget)
             IN  IF row > 0 /\ widget # None THEN setCurrentRow(w3, row - 1) ELSE w3

\* variant of delete_page: the predecessor is not selected (lines 572-573
\* missing)
delete_page_no_reselect(w) ==
    LET row == w.list_row
    IN  IF w.aborted \/ row < 0 \/ Len(w.page_list) <= 1 THEN w
        ELSE LET w1 == takeItem(w, row)
                 widget == IF row < Len(w1.page_stack) THEN w1.page_stack[row + 1] ELSE None
                 w2 == removeWidget(w1, row)
             IN  IF widget = None THEN Raise(w2, "AttributeError")
                 ELSE deleteLater(w2, widget)

\* variant of delete_page: deleteLater is called on the widget that is
\* current after the removal, not on the removed one
delete_page_deletes_current(w) ==
    LET row == w.list_row
    IN  IF w.aborted \/ row < 0 \/ Len(w.page_list) <= 1 THEN w
        ELSE LET w1 == takeItem(w, row)
                 widget == IF row < Len(w1.page_stack) THEN w1.page_stack[row + 1] ELSE None
                 w2 == removeWidget(w1, row)
                 w3 == IF widget = None THEN Raise(w2, "AttributeError")
                       ELSE deleteLater(w2, currentWidget(w2))
             IN  IF row > 0 /\ widget # None THEN setCurrentRow(w3, row - 1) ELSE w3

\* variant of delete_page: the first widget of the stack is removed,
\* whatever the row
delete_page_removes_first(w) ==
    LET row == w.list_row
    IN  IF w.aborted \/ row < 0 \/ Len(w.page_list) <= 1 THEN w
        ELSE LET w1 == takeItem(w, row)
                 widget == IF 0 < Len(w1.page_stack) THEN w1.page_stack[1] ELSE None
                 w2 == removeWidget(w1, 0)
                 w3 == IF widget = None THEN Raise(w2, "AttributeError")
                       ELSE deleteLater(w2, widget)
             IN  IF row > 0 /\ widget # None THEN setCurrentRow(w3, row - 1) ELSE w3

\* PagesPanel.delete_page
delete_page(w) ==
    LET row == w.list_row
    IN  IF w.aborted \/ row < 0 \/ Len(w.page_list) <= 1 THEN w
        ELSE LET w1 == takeItem(w, row)
                 widget == IF row < Len(w1.page_stack) THEN w1.page_stack[row + 1] ELSE None
                 w2 == removeWidget(w1, row)
                 w3 == IF widget = None THEN Raise(w2, "AttributeError")
                       ELSE deleteLater(w2, widget)
             IN  IF row > 0 /\ widget # None THEN setCurrentRow(w3, row - 1) ELSE w3

-----------------------------------------------------------------------------
(* MainWindow (bestmath.py) *)

\* the while loop of new_document: remove widget 0 until the stack is empty
RECURSIVE RemoveAllWidgets(_)
RemoveAllWidgets(w) ==
    IF w.aborted \/ Len(w.page_stack) = 0 THEN w
    ELSE LET widget == w.page_stack[1]
         IN  RemoveAllWidgets(deleteLater(removeWidget(w, 0), widget))

\* self.preview.clear()
clearPreview(w) == IF w.aborted THEN w ELSE [w EXCEPT !.preview = EmptyDocument]

\* MainWindow.new_document
new_document(w) ==
    LET w1 == clearList(w)
        w2 == RemoveAllWidgets(w1)
        w3 == add_page(w2, NoTitle)
    IN  clearPreview(w3)

\* control returns to the event loop: the deferred deletions run
EventLoop(w) ==
    IF w.aborted THEN w
    ELSE [w EXCEPT !.editors = [i \in DOMAIN w.editors |->
                                   IF i \in w.doomed THEN Destroyed ELSE w.editors[i]],
                   !.doomed = {}]

-----------------------------------------------------------------------------
(* Image Loader/Transform (insert_image, lines 867-878) *)

NoDim == 0            \* get_settings' None; the tests `if width` also treat 0 so

\* size of the picture on disk, <<width, height>>
SourceSize == <<4, 2>>

\* what the user types into the width and height fields
Dims == {NoDim, -1, 2}

\* round(a / b) for b > 0
RoundDiv(a, b) == (2 * a + b) \div (2 * b)

\* the size after the scaling chain; <<0, 0>> is the null image Qt returns
\* for a target that is not positive and for a side that rounds to zero
transform(src, width, height) ==
    IF width # NoDim /\ height # NoDim
    THEN IF width <= 0 \/ height <= 0 THEN <<0, 0>> ELSE <<width, height>>
    ELSE IF width # NoDim
    THEN IF width <= 0 \/ RoundDiv(src[2] * width, src[1]) = 0 THEN <<0, 0>>
         ELSE <<width, RoundDiv(src[2] * width, src[1])>>
    ELSE IF height # NoDim
    THEN IF height <= 0 \/ RoundDiv(src[1] * height, src[2]) = 0 THEN <<0, 0>>
         ELSE <<RoundDiv(src[1] * height, src[2]), height>>
    ELSE src

IsNull(size) == size[1] <= 0 \/ size[2] <= 0

\* a second picture on disk, one pixel high
StripSize == <<4, 1>>

\* QImage(path): the size of the picture loaded, null when the file cannot
\* be decoded
QImage(path) ==
    CASE path = "picture" -> SourceSize
      [] path = "strip"   -> StripSize
      [] OTHER            -> <<0, 0>>

-----------------------------------------------------------------------------
(* Files *)

\* paths a file dialog can return; "" when the dialog was cancelled
HtmlPaths == {"doc.html", "sample.html", "broken.html", "missing.html"}
TextPaths == {"doc.txt"}

\* files that exist before the program starts
SampleHtml == <<"<html>", "<body>", "<p center>", "a", "<img latex>", "</p>",
                "</body>", "</html>">>
BrokenHtml == <<"<p right>", "<b>", "a", "</html>", "<img">>

\* what Path(path).read_text finds; NoFile when it raises
ReadText(files, path) ==
    CASE path = "sample.html" -> SampleHtml
      [] path = "broken.html" -> BrokenHtml
      [] path \in DOMAIN files -> files[path]
      [] OTHER -> NoFile

-----------------------------------------------------------------------------
(* MainWindow handlers (bestmath.py) *)

Warn(w, text) == [w EXCEPT !.notice = text]

-----------------------------------------------------------------------------
(* LatexDialog (bestmath.py) *)

\* what the user can have in the formula field
LatexTexts == {<<>>, <<" ">>, <<"x", "^", "2">>, <<" ", "\\frac", "{", " ">>}

Count(text, c) == Len(SelectSeq(text, LAMBDA x : x = c))

\* MainWindow.render_latex_static: matplotlib's mathtext raises on a formula
\* it cannot parse, such as one with unbalanced braces
render_latex_static(formula) ==
    IF Count(formula, "{") = Count(formula, "}") THEN "latex" ELSE ValueError

\* LatexDialog.__init__: empty field, and _update_preview ran once
LatexDialog == [kind |-> "latex", input_field |-> <<>>, preview_label |-> "Preview"]

\* variant of LatexDialog._update_preview: it refreshes the main window's
\* preview as well
LatexDialog_update_preview_main(w) ==
    LET text == strip(w.dialog.input_field)
        w1 == update_preview(w)
    IN  IF text = <<>> THEN [w1 EXCEPT !.dialog.preview_label = "Preview"]
        ELSE IF render_latex_static(text) = ValueError
        THEN [w1 EXCEPT !.dialog.preview_label = "latex_error"]
        ELSE [w1 EXCEPT !.dialog.preview_label = "pixmap"]

\* LatexDialog._update_preview
LatexDialog_update_preview(w) ==
    LET text == strip(w.dialog.input_field)
    IN  IF text = <<>> THEN [w EXCEPT !.dialog.preview_label = "Preview"]
        ELSE IF render_latex_static(text) = ValueError
        THEN [w EXCEPT !.dialog.preview_label = "latex_error"]
        ELSE [w EXCEPT !.dialog.preview_label = "pixmap"]

\* input_field.textChanged and the slot connected to it (line 310)
textChanged(w, text) ==
    IF text = w.dialog.input_field THEN w
    ELSE LatexDialog_update_preview([w EXCEPT !.dialog.input_field = text])

\* LatexDialog.get_latex
get_latex(d) == strip(d.input_field)

\* what insert_latex makes of the accepted dialog (lines 839-846)
LatexOutcome(d) ==
    IF get_latex(d) = <<>> THEN "empty"
    ELSE IF render_latex_static(get_latex(d)) = ValueError THEN "invalid"
    ELSE "valid"

-----------------------------------------------------------------------------
(* GraphDialog (bestmath.py) *)

\* what the user can have in the function field, token by token
Exprs ==
    {<<>>,
     <<"sin", "(", "x", ")">>,
     <<"x", "^", "2">>,
     <<"2">>,
     <<"pow", "(", "x", ",", "2", ")">>,
     <<"foo", "(", "x", ")">>}

\* lines 434-435: the names the dictionary passed to eval binds
Globals == {"x", "np", "sin", "cos", "tan", "sqrt", "log", "exp", "abs"}

\* the dictionary has no __builtins__ entry, so eval adds the interpreter's
\* own: every built-in name resolves too (a few of them)
Builtins == {"abs", "pow", "round", "max", "min", "float", "__import__"}

\* the identifiers of an expression
Names(expr) ==
    {expr[i] : i \in 1..Len(expr)} \ ({"(", ")", ",", "^", " ", "."} \cup Digits)

\* variant of linspace: the samples are counted from 1, not from 0
linspace_from_second(start, stop, num) ==
    [i \in 1..num |-> start * (num - 1) + i * (stop - start)]

\* np.linspace(start, stop, num): sample i of num is
\* start + i * (stop - start) / (num - 1), i = 0..num-1; the samples are
\* kept in units of 1 / (num - 1)
linspace(start, stop, num) ==
    [i \in 1..num |-> start * (num - 1) + (i - 1) * (stop - start)]

\* eval(expr, {...}) on the samples x: NameError for a name that neither
\* the dictionary nor the built-ins bind, TypeError for ^ on a float array,
\* an array for an expression in x, a plain number for a constant
eval(expr) ==
    IF ~(Names(expr) \subseteq Globals \cup Builtins) THEN ValueError
    ELSE IF "^" \in {expr[i] : i \in 1..Len(expr)} /\ "x" \in Names(expr) THEN ValueError
    ELSE IF "x" \in Names(expr) THEN "array"
    ELSE "scalar"

\* self.axis.clear(): no artist, no grid
axis_clear(d) == [d EXCEPT !.axis = <<>>, !.grid = FALSE, !.reference = {}]

\* GraphDialog._configure_axes: cleared axes with the grid on and the two
\* lines through the origin
configure_axes(d) ==
    [axis_clear(d) EXCEPT !.grid = TRUE, !.reference = {"axhline", "axvline"}]

\* GraphDialog.__init__
GraphDialog ==
    configure_axes([kind |-> "graph", function_input |-> <<>>, points_input |-> <<>>,
                    fill_check |-> FALSE, axis |-> <<>>, grid |-> FALSE,
                    reference |-> {}])

\* GraphDialog.add_function.  axis.plot(x, y) is outside the try: for a y
\* that is not 400 long it raises ValueError (x and y must have same first
\* dimension) in the slot
add_function(w) ==
    LET expr == strip(w.dialog.function_input)
        x == linspace(-10, 10, 400)
    IN  IF expr = <<>> THEN w
        ELSE IF eval(expr) = ValueError THEN Warn(w, "Invalid function expression.")
        ELSE IF eval(expr) = "scalar" THEN Raise(w, "ValueError")
        ELSE [w EXCEPT !.dialog.axis =
                 @ \o <<[artist |-> "line", data |-> expr, x |-> x]>>
                   \o (IF w.dialog.fill_check
                       THEN <<[artist |-> "fill", data |-> expr, x |-> x]>> ELSE <<>>)]

\* the pieces of a list that are not blank, stripped
Stripped(pieces) ==
    LET kept == SelectSeq(pieces, LAMBDA piece : strip(piece) # <<>>)
    IN  [i \in 1..Len(kept) |-> strip(kept[i])]

\* lines 450-452: the pairs add_points reads out of the text
Pairs(text) ==
    LET pairs == Stripped(split(replace(replace(text, "("), ")"), ";"))
    IN  IF pairs = <<>> THEN Stripped(split(text, ")")) ELSE pairs

\* lines 454-458 for one pair: no point when it is skipped, ValueError when
\* the unpacking or float() raises, else its point
Point(pair) ==
    LET cleaned == strip(replace(replace(pair, "("), ")"))
        values == split_once(cleaned, ",")
    IN  IF cleaned = <<>> THEN Returned(<<>>)
        ELSE IF Len(values) # 2 THEN Raised
        ELSE IF ~float(values[1]).ok \/ ~float(values[2]).ok THEN Raised
        ELSE Returned(<<(<<float(values[1]).value, float(values[2]).value>>)>>)

\* lines 453-458: the loop over the pairs
RECURSIVE Points(_)
Points(pairs) ==
    IF pairs = <<>> THEN Returned(<<>>)
    ELSE IF ~Point(Head(pairs)).ok \/ ~Points(Tail(pairs)).ok THEN Raised
    ELSE Returned(Point(Head(pairs)).value \o Points(Tail(pairs)).value)

\* GraphDialog.add_points
add_points(w) ==
    LET text == strip(w.dialog.points_input)
        points == Points(Pairs(text))
    IN  IF text = <<>> THEN w
        ELSE IF ~points.ok THEN Warn(w, "Invalid points format.")
        ELSE IF points.value = <<>> THEN w
        ELSE [w EXCEPT !.dialog.axis =
                 Append(@, [artist |-> "scatter", data |-> points.value])]

\* variant of clear_graph: the axes are cleared and not configured again
clear_graph_bare(w) == [w EXCEPT !.dialog = axis_clear(@)]

\* GraphDialog.clear_graph
clear_graph(w) == [w EXCEPT !.dialog = configure_axes(@)]

-----------------------------------------------------------------------------
(* ImageInsertDialog (bestmath.py) *)

\* what the user can have in the width and height fields
DimTexts == {<<>>, <<"a">>, <<"1">>, <<"2">>, <<"-", "1">>}

\* ImageInsertDialog.__init__
ImageInsertDialog(image_path) ==
    [kind |-> "image", image_path |-> image_path, width_input |-> <<>>,
     height_input |-> <<>>, align_box |-> "Left"]

\* get_settings' parse: None for what int() refuses
parse(text) == IF int(text).ok THEN int(text).value ELSE NoDim

\* ImageInsertDialog.get_settings
get_settings(d) == <<parse(d.width_input), parse(d.height_input), d.align_box>>

\* self.current_editor(): the active page (a blank one stands in where the
\* call raises; OnCurrentEditor never stores it)
current_editor(w) ==
    IF NoEditorAvailable(w) THEN NewEditor ELSE w.editors[currentWidget(w)]

\* variant of OnCurrentEditor: the edit lands on the page added last
OnCurrentEditor_last(w, ed) ==
    IF w.aborted THEN w
    ELSE IF NoEditorAvailable(w) THEN Raise(w, RuntimeError)
    ELSE [w EXCEPT !.editors[w.page_stack[Len(w.page_stack)]] = ed]

\* self.current_editor().<edit>: the active page becomes ed, the result of
\* the edit on current_editor(w)
OnCurrentEditor(w, ed) ==
    IF w.aborted THEN w
    ELSE IF NoEditorAvailable(w) THEN Raise(w, RuntimeError)
    ELSE [w EXCEPT !.editors[currentWidget(w)] = ed]

\* variant of insert_latex: the preview is not refreshed (line 850 missing)
insert_latex_no_refresh(w, dialog) ==
    CASE dialog = "rejected" -> w
      [] dialog = "empty"    -> w
      [] dialog = "invalid"  -> Warn(w, "latex_error")
      [] dialog = "valid"    -> OnCurrentEditor(w, insertImage(current_editor(w), "latex"))

\* variant of insert_latex: no try around the rendering (lines 843-847)
insert_latex_uncaught(w, dialog) ==
    CASE dialog = "rejected" -> w
      [] dialog = "empty"    -> w
      [] dialog = "invalid"  -> Raise(w, ValueError)
      [] dialog = "valid"    ->
            update_preview(OnCurrentEditor(w, insertImage(current_editor(w), "latex")))

\* MainWindow.insert_latex; dialog is what LatexDialog returned
insert_latex(w, dialog) ==
    CASE dialog = "rejected" -> w
      [] dialog = "empty"    -> w
      [] dialog = "invalid"  -> Warn(w, "latex_error")
      [] dialog = "valid"    ->
            update_preview(OnCurrentEditor(w, insertImage(current_editor(w), "latex")))

\* MainWindow.insert_diagram
insert_diagram(w, dialog) ==
    IF dialog = "accepted"
    THEN update_preview(OnCurrentEditor(w, insertImage(current_editor(w), "graph")))
    ELSE w

\* MainWindow.insert_image; path is what the file dialog returned
insert_image(w, path, dialog, width, height, alignment) ==
    IF path = "" \/ dialog # "accepted" THEN w
    ELSE IF IsNull(QImage(path)) THEN Warn(w, "Unable to load image.")
    ELSE LET size == transform(QImage(path), width, height)
             image == IF IsNull(size) THEN NullImage ELSE "image"
             w1 == [w EXCEPT !.image = <<QImage(path), width, height, size>>]
         IN  update_preview(OnCurrentEditor(w1,
                 insertImage(setBlockFormat(current_editor(w1), alignment), image)))

\* MainWindow.open_document; path is what the file dialog returned ("" when
\* cancelled), content what read_text finds there
open_document(w, path, content) ==
    IF path = "" THEN w
    ELSE IF content = NoFile THEN Raise(w, "OSError")
    ELSE update_preview(OnCurrentEditor(w, setHtml(current_editor(w), content)))

\* variant of save_document: the first page is written, not the active one
save_document_first_page(w) == toHtml(w.editors[w.page_stack[1]])

\* the text MainWindow.save_document writes
save_document(w) == toHtml(w.editors[currentWidget(w)])

-----------------------------------------------------------------------------
(* MainWindow handlers (sourcecode.py) *)

\* the character QTextEdit.toPlainText() puts in place of an image
ObjectChar == "OBJ"

PlainChar(x) == IF x \in Images THEN ObjectChar ELSE x

toPlainText(ed) == [i \in 1..Len(ed.doc) |-> PlainChar(ed.doc[i])]

setPlainText(ed, text) ==
    [ed EXCEPT !.doc = text, !.pos = 0, !.align = "Left", !.undo = <<>>, !.redo = <<>>]

\* MainWindow._update_preview
sc_update_preview(w) ==
    IF w.aborted THEN w ELSE [w EXCEPT !.preview = Preview(toHtml(w.editor))]

\* MainWindow.new_document
sc_new_document(w) == [w EXCEPT !.editor = clear(@), !.preview = EmptyDocument]

\* MainWindow.open_document
sc_open_document(w, path, content) ==
    IF path = "" THEN w
    ELSE IF content = NoFile THEN Raise(w, "OSError")
    ELSE IF path \in HtmlPaths THEN [w EXCEPT !.editor = setHtml(@, content)]
    ELSE [w EXCEPT !.editor = setPlainText(@, content)]

\* the text MainWindow.save_document writes
sc_save_document(w, path) ==
    IF path \in HtmlPaths THEN toHtml(w.editor) ELSE toPlainText(w.editor)

\* MainWindow.insert_latex; dialog is what QInputDialogCompat.get_text returned
sc_insert_latex(w, dialog) ==
    CASE dialog = "rejected" -> w
      [] dialog = "empty"    -> w
      [] dialog = "invalid"  -> Warn(w, "latex_error")
      [] dialog = "valid"    ->
            sc_update_preview([w EXCEPT !.editor = insertImage(@, "latex")])

\* MainWindow.insert_diagram
sc_insert_diagram(w, dialog) ==
    IF dialog = "accepted"
    THEN sc_update_preview([w EXCEPT !.editor = insertImage(@, "diagram")])
    ELSE w

-----------------------------------------------------------------------------
(* The state machine *)

\* a process that never constructed a PagesPanel (sourcecode.py) or a single
\* editor (bestmath.py)
Absent == Destroyed

\* PagesPanel.__init__ then MainWindow.__init__ up to line 596: the first page
\* is added before currentChanged is connected
Startup ==
    add_page([page_list |-> <<>>, list_row |-> -1, page_stack |-> <<>>,
              stack_index |-> -1, editors |-> <<>>, editor |-> Absent,
              preview |-> EmptyDocument, raised |-> {}, aborted |-> FALSE,
              excepthook |-> FALSE, notice |-> "", connected |-> FALSE,
              doomed |-> {}, dialog |-> NoDialog, image |-> NoImage], NoTitle)

\* a sourcecode.py window after MainWindow.__init__, with its own files: it
\* is given the operations the two programs share, next to a bestmath.py
\* window kept to one page
TwinStartup ==
    [editor |-> NewEditor, preview |-> Placeholder("sourcecode"),
     disk |-> [p \in {"doc.html", "doc.txt"} |-> NoFile],
     raised |-> {}, aborted |-> FALSE]

Init ==
    /\ variant \in {"bestmath", "sourcecode"}
    /\ IF variant = "bestmath"
       THEN /\ page_list = Startup.page_list
            /\ list_row = Startup.list_row
            /\ page_stack = Startup.page_stack
            /\ stack_index = Startup.stack_index
            /\ editors = Startup.editors
            /\ editor = Absent
       ELSE /\ page_list = <<>>
            /\ list_row = -1
            /\ page_stack = <<>>
            /\ stack_index = -1
            /\ editors = <<>>
            /\ editor = NewEditor
    /\ preview = Placeholder(variant)
    /\ clipboard = <<>>
    /\ disk = [p \in {"doc.html", "doc.txt"} |-> NoFile]
    /\ raised = {}
    /\ aborted = FALSE
    /\ last = [op |-> "startup", input |-> "", notice |-> "", image |-> NoImage]
    /\ edits = 0
    /\ open_dialog = NoDialog
    /\ twin = TwinStartup

\* the sourcecode.py window of twin as a program state
TwinWorld(hook) ==
    [World(hook) EXCEPT !.editor = twin.editor, !.preview = twin.preview,
                        !.raised = twin.raised, !.aborted = twin.aborted]

\* a handler returned in the program, and the same handler of sourcecode.py
\* returned in the twin window, leaving it as t with the files of disk2
CommitBoth(w0, t, disk2, op, input) ==
    LET w == EventLoop(w0)
    IN  /\ twin' = [editor |-> t.editor, preview |-> t.preview, disk |-> disk2,
                    raised |-> t.raised, aborted |-> t.aborted]
        /\ page_list' = w.page_list
        /\ list_row' = w.list_row
        /\ page_stack' = w.page_stack
        /\ stack_index' = w.stack_index
        /\ editors' = w.editors
        /\ editor' = w.editor
        /\ preview' = w.preview
        /\ raised' = w.raised
        /\ aborted' = w.aborted
        /\ last' = [op |-> op, input |-> input, notice |-> w.notice,
                    image |-> w.image]
        /\ open_dialog' = w.dialog
        /\ UNCHANGED variant

\* a handler returned (or the process died in it): the program's new state
Commit(w0, op, input) == CommitBoth(w0, TwinWorld(FALSE), twin.disk, op, input)

\* the main window takes input: the process lives and no modal dialog is up
Idle == ~aborted /\ open_dialog = NoDialog

Running(v) == variant = v /\ Idle

\* the program with the default exception hook of a plain run
Now == World(FALSE)

\* the editor that has the keyboard: the visible page, or the single editor
Focused == IF variant = "bestmath" THEN editors[currentWidget(Now)] ELSE editor

\* the focused editor becomes ed
OnFocused(w, ed) ==
    IF variant = "bestmath" THEN OnCurrentEditor(w, ed) ELSE [w EXCEPT !.editor = ed]

\* "cancelled" for every way of leaving a dialog without a result
Given(dialog) == IF dialog \in {"rejected", "empty", ""} THEN "cancelled" ELSE dialog

(* bestmath.py *)

AddPage ==
    /\ Running("bestmath")
    /\ Len(editors) < MaxEditors
    /\ \E title \in Titles : Commit(add_page(Now, title), "add_page", IF Truthy(title) THEN title ELSE "")
    /\ UNCHANGED <<clipboard, disk, edits>>

DeletePage ==
    /\ Running("bestmath")
    /\ Commit(delete_page(Now), "delete_page", "")
    /\ UNCHANGED <<clipboard, disk, edits>>

\* the user clicks a row of the page list
SelectPage ==
    /\ Running("bestmath")
    /\ \E row \in 0..(Len(page_list) - 1) :
          Commit(setCurrentRow(Now, row), "select_page", "")
    /\ UNCHANGED <<clipboard, disk, edits>>

NewDocument ==
    /\ Running("bestmath")
    /\ Len(editors) < MaxEditors
    /\ \E hook \in BOOLEAN : Commit(new_document(World(hook)), "new_document", "")
    /\ UNCHANGED <<clipboard, disk, edits>>

\* open_document when the file dialog returns one of paths
OpenDocumentFrom(paths) ==
    /\ Running("bestmath")
    /\ \E path \in paths, hook \in BOOLEAN :
          /\ Commit(open_document(World(hook), path, ReadText(disk, path)),
                    "open_document", Given(path))
          /\ edits' = IF path = "" \/ ReadText(disk, path) = NoFile THEN edits
                      ELSE edits + 1
    /\ UNCHANGED <<clipboard, disk>>

OpenDocument == OpenDocumentFrom(HtmlPaths \cup {""})

\* save_document when the file dialog returns one of paths
SaveDocumentTo(paths) ==
    /\ Running("bestmath")
    /\ \E path \in paths :
          /\ disk' = IF path = "" THEN disk
                     ELSE [disk EXCEPT ![path] = save_document(Now)]
          /\ Commit(Now, "save_document", Given(path))
    /\ UNCHANGED <<clipboard, edits>>

SaveDocument == SaveDocumentTo({"", "doc.html"})

InsertLatex ==
    /\ Running("bestmath")
    /\ \E dialog \in {"rejected", "empty", "invalid", "valid"} :
          /\ Commit(insert_latex(Now, dialog), "insert_latex", Given(dialog))
          /\ edits' = IF dialog = "valid" THEN edits + 1 ELSE edits
    /\ UNCHANGED <<clipboard, disk>>

InsertDiagram ==
    /\ Running("bestmath")
    /\ \E dialog \in {"rejected", "accepted"} :
          /\ Commit(insert_diagram(Now, dialog), "insert_diagram", Given(dialog))
          /\ edits' = IF dialog = "accepted" THEN edits + 1 ELSE edits
    /\ UNCHANGED <<clipboard, disk>>

InsertImage ==
    /\ Running("bestmath")
    /\ \/ /\ \E path \in {"", "picture"}, dialog \in {"rejected", "accepted"} :
               /\ path = "" \/ dialog = "rejected"
               /\ Commit(insert_image(Now, path, dialog, NoDim, NoDim, "Left"),
                         "insert_image", "cancelled")
          /\ edits' = edits
       \/ /\ Commit(insert_image(Now, "undecodable", "accepted", NoDim, NoDim, "Left"),
                    "insert_image", "undecodable")
          /\ edits' = edits
       \/ /\ \E width \in Dims, height \in Dims, alignment \in Alignments :
               Commit(insert_image(Now, "picture", "accepted", width, height, alignment),
                      "insert_image",
                      IF IsNull(transform(SourceSize, width, height))
                      THEN "picture, no size" ELSE "picture")
          /\ edits' = edits + 1
    /\ UNCHANGED <<clipboard, disk>>

(* sourcecode.py *)

ScNewDocument ==
    /\ Running("sourcecode")
    /\ Commit(sc_new_document(Now), "new_document", "")
    /\ UNCHANGED <<clipboard, disk, edits>>

ScOpenDocument ==
    /\ Running("sourcecode")
    /\ \E path \in HtmlPaths \cup TextPaths \cup {""}, hook \in BOOLEAN :
          /\ Commit(sc_open_document(World(hook), path, ReadText(disk, path)),
                    "open_document", Given(path))
          /\ edits' = IF path = "" \/ ReadText(disk, path) = NoFile THEN edits
                      ELSE edits + 1
    /\ UNCHANGED <<clipboard, disk>>

ScSaveDocument ==
    /\ Running("sourcecode")
    /\ \E path \in {"", "doc.html", "doc.txt"} :
          /\ disk' = IF path = "" THEN disk
                     ELSE [disk EXCEPT ![path] = sc_save_document(Now, path)]
          /\ Commit(Now, "save_document", Given(path))
    /\ UNCHANGED <<clipboard, edits>>

ScInsertLatex ==
    /\ Running("sourcecode")
    /\ \E dialog \in {"rejected", "empty", "invalid", "valid"} :
          /\ Commit(sc_insert_latex(Now, dialog), "insert_latex", Given(dialog))
          /\ edits' = IF dialog = "valid" THEN edits + 1 ELSE edits
    /\ UNCHANGED <<clipboard, disk>>

ScInsertDiagram ==
    /\ Running("sourcecode")
    /\ \E dialog \in {"rejected", "accepted"} :
          /\ Commit(sc_insert_diagram(Now, dialog), "insert_diagram", Given(dialog))
          /\ edits' = IF dialog = "accepted" THEN edits + 1 ELSE edits
    /\ UNCHANGED <<clipboard, disk>>

(* the edit actions of both programs and the keyboard *)

TypeText ==
    /\ Idle
    /\ \E ch \in Chars :
          Commit(OnFocused(Now, insertText(Focused, ch)), "type_text", ch)
    /\ edits' = edits + 1
    /\ UNCHANGED <<clipboard, disk>>

\* the user puts the cursor somewhere else
MoveCursor ==
    /\ Idle
    /\ \E p \in 0..Len(Focused.doc) :
          /\ p # Focused.pos
          /\ Commit(OnFocused(Now, [Focused EXCEPT !.pos = p]), "move_cursor", "")
    /\ UNCHANGED <<clipboard, disk, edits>>

Undo ==
    /\ Idle
    /\ Commit(OnFocused(Now, undo(Focused)), "undo", "")
    /\ UNCHANGED <<clipboard, disk, edits>>

Redo ==
    /\ Idle
    /\ Commit(OnFocused(Now, redo(Focused)), "redo", "")
    /\ UNCHANGED <<clipboard, disk, edits>>

\* cut with the items from..to-1 selected
Cut ==
    /\ Idle
    /\ \E from \in 0..Len(Focused.doc), to \in 0..Len(Focused.doc) :
          /\ from <= to
          /\ Commit(OnFocused(Now, cut(Focused, from, to)), "cut", "")
          /\ clipboard' = IF from < to THEN SubSeq(Focused.doc, from + 1, to) ELSE clipboard
          /\ edits' = IF from < to THEN edits + 1 ELSE edits
    /\ UNCHANGED disk

\* copy with the items from..to-1 selected
Copy ==
    /\ Idle
    /\ \E from \in 0..Len(Focused.doc), to \in 0..Len(Focused.doc) :
          /\ from <= to
          /\ Commit(Now, "copy", "")
          /\ clipboard' = IF from < to THEN SubSeq(Focused.doc, from + 1, to) ELSE clipboard
    /\ UNCHANGED <<disk, edits>>

Paste ==
    /\ Idle
    /\ LET clip == clipboard
       IN  Commit(OnFocused(Now, paste(Focused, clip)), "paste", "")
    /\ edits' = IF clipboard = <<>> THEN edits ELSE edits + 1
    /\ UNCHANGED <<clipboard, disk>>

(* bestmath.py's handlers step by step: a handler that opens a dialog      *)
(* waits in dialog.exec() while the dialog's own slots run, and goes on    *)
(* when the dialog is accepted or rejected                                 *)

\* a handler of bestmath.py is waiting in the exec() of a dialog of this kind
InDialog(kind) == variant = "bestmath" /\ ~aborted /\ open_dialog.kind = kind

Close(w) == [w EXCEPT !.dialog = NoDialog]

\* insert_latex up to dialog.exec()
OpenLatexDialog ==
    /\ Running("bestmath")
    /\ Commit([Now EXCEPT !.dialog = LatexDialog], "LatexDialog", "")
    /\ UNCHANGED <<clipboard, disk, edits>>

\* the user edits the formula field
LatexType ==
    /\ InDialog("latex")
    /\ \E text \in LatexTexts :
          /\ text # open_dialog.input_field
          /\ Commit(textChanged(Now, text), "textChanged", "")
    /\ UNCHANGED <<clipboard, disk, edits>>

\* Insert: insert_latex from line 837 on
LatexAccept ==
    /\ InDialog("latex")
    /\ LET outcome == LatexOutcome(open_dialog)
       IN  /\ Commit(insert_latex(Close(Now), outcome), "insert_latex", Given(outcome))
           /\ edits' = IF outcome = "valid" THEN edits + 1 ELSE edits
    /\ UNCHANGED <<clipboard, disk>>

\* Cancel
LatexReject ==
    /\ InDialog("latex")
    /\ Commit(insert_latex(Close(Now), "rejected"), "insert_latex", Given("rejected"))
    /\ UNCHANGED <<clipboard, disk, edits>>

\* insert_diagram up to dialog.exec()
OpenGraphDialog ==
    /\ Running("bestmath")
    /\ Commit([Now EXCEPT !.dialog = GraphDialog], "GraphDialog", "")
    /\ UNCHANGED <<clipboard, disk, edits>>

\* the user fills in the function field, sets the fill box and clicks Add
\* Function
GraphAddFunction(exprs) ==
    /\ InDialog("graph")
    /\ \E expr \in exprs, fill \in BOOLEAN, hook \in BOOLEAN :
          Commit(add_function([World(hook) EXCEPT !.dialog.function_input = expr,
                                                  !.dialog.fill_check = fill]),
                 "add_function", "")
    /\ UNCHANGED <<clipboard, disk, edits>>

\* the user fills in the points field with one of texts and clicks Add Points
GraphAddPoints(texts) ==
    /\ InDialog("graph")
    /\ \E text \in texts :
          Commit(add_points([Now EXCEPT !.dialog.points_input = text]), "add_points", "")
    /\ UNCHANGED <<clipboard, disk, edits>>

\* Clear
GraphClear ==
    /\ InDialog("graph")
    /\ Commit(clear_graph(Now), "clear_graph", "")
    /\ UNCHANGED <<clipboard, disk, edits>>

\* OK: insert_diagram from line 854 on
GraphAccept ==
    /\ InDialog("graph")
    /\ Commit(insert_diagram(Close(Now), "accepted"), "insert_diagram", "accepted")
    /\ edits' = edits + 1
    /\ UNCHANGED <<clipboard, disk>>

\* Cancel
GraphReject ==
    /\ InDialog("graph")
    /\ Commit(insert_diagram(Close(Now), "rejected"), "insert_diagram", Given("rejected"))
    /\ UNCHANGED <<clipboard, disk, edits>>

\* insert_image up to dialog.exec(): the file dialog, cancelled or not
ChooseImage ==
    /\ Running("bestmath")
    /\ \/ Commit(insert_image(Now, "", "rejected", NoDim, NoDim, "Left"),
                 "insert_image", Given(""))
       \/ \E path \in {"undecodable", "picture", "strip"} :
             Commit([Now EXCEPT !.dialog = ImageInsertDialog(path)], "ImageInsertDialog", "")
    /\ UNCHANGED <<clipboard, disk, edits>>

\* the user fills in the settings and clicks OK: insert_image from line 865
\* on
ImageAccept ==
    /\ InDialog("image")
    /\ \E width \in DimTexts, height \in DimTexts, alignment \in Alignments :
          LET d == [open_dialog EXCEPT !.width_input = width, !.height_input = height,
                                       !.align_box = alignment]
              path == d.image_path
              settings == get_settings(d)
              loaded == ~IsNull(QImage(path))
          IN  /\ Commit(insert_image(Close(Now), path, "accepted",
                                     settings[1], settings[2], settings[3]),
                        "insert_image",
                        IF ~loaded THEN "undecodable"
                        ELSE IF IsNull(transform(QImage(path), settings[1], settings[2]))
                        THEN "picture, no size" ELSE "picture")
              /\ edits' = IF loaded THEN edits + 1 ELSE edits
    /\ UNCHANGED <<clipboard, disk>>

\* Cancel
ImageReject ==
    /\ InDialog("image")
    /\ Commit(insert_image(Close(Now), open_dialog.image_path, "rejected",
                            NoDim, NoDim, "Left"),
              "insert_image", Given("rejected"))
    /\ UNCHANGED <<clipboard, disk, edits>>

-----------------------------------------------------------------------------
(* Specifications.  Spec: the page collection and the insertion handlers.  *)
(* SpecEdit: every way a buffer changes.  SpecFile: saving and loading     *)
(* among several pages.  SpecLoad: saving and loading what was edited.     *)
(* SpecDialog: the dialogs step by step.  SpecPoints: the points field.    *)
(* SpecInsert: insertions one after the other.                             *)

Next ==
    \/ AddPage \/ DeletePage \/ SelectPage \/ NewDocument
    \/ ScNewDocument
    \/ (edits < MaxEdits /\ InsertLatex)
    \/ (edits < MaxEdits /\ InsertDiagram)
    \/ (edits < MaxEdits /\ InsertImage)
    \/ (edits < MaxEdits /\ ScInsertLatex)
    \/ (edits < MaxEdits /\ ScInsertDiagram)

Spec == Init /\ [][Next]_vars

NextEdit ==
    \/ MoveCursor \/ Undo \/ Redo \/ Copy
    \/ (edits < MaxKeys /\ InsertLatex)
    \/ (edits < MaxKeys /\ InsertDiagram)
    \/ (edits < MaxKeys /\ InsertImage)
    \/ (edits < MaxKeys /\ ScInsertLatex)
    \/ (edits < MaxKeys /\ ScInsertDiagram)
    \/ (edits < MaxKeys /\ OpenDocument)
    \/ (edits < MaxKeys /\ ScOpenDocument)
    \/ (edits < MaxKeys /\ TypeText)
    \/ (edits < MaxKeys /\ Cut)
    \/ (edits < MaxKeys /\ Paste)

SpecEdit == Init /\ [][NextEdit]_vars

NextFile ==
    \/ AddPage \/ SelectPage
    \/ SaveDocument \/ ScSaveDocument
    \/ (edits < MaxEdits /\ InsertLatex)
    \/ (edits < MaxEdits /\ ScInsertLatex)
    \/ (edits < MaxEdits /\ OpenDocument)
    \/ (edits < MaxEdits /\ ScOpenDocument)

SpecFile == Init /\ [][NextFile]_vars

NextLoad ==
    \/ SaveDocument \/ ScSaveDocument
    \/ (edits < MaxKeys /\ InsertLatex)
    \/ (edits < MaxKeys /\ ScInsertLatex)
    \/ (edits < MaxKeys /\ TypeText)
    \/ (edits < MaxKeys /\ OpenDocument)
    \/ (edits < MaxKeys /\ ScOpenDocument)

SpecLoad == Init /\ [][NextLoad]_vars

\* the texts tried in the points field next to the other dialogs
SomePointTexts ==
    {<<"(", "1", ",", "2", ")", ";", " ", "(", "2", ",", "3", ".", "5", ")">>,
     <<"a", "b", "c">>}

\* the expressions tried next to the other dialogs
SomeExprs == {<<>>, <<"sin", "(", "x", ")">>, <<"x", "^", "2">>, <<"2">>}

\* the artists on the open GraphDialog's axes
Plots == IF open_dialog.kind = "graph" THEN Len(open_dialog.axis) ELSE 0

NextDialog ==
    \/ OpenLatexDialog \/ LatexType \/ LatexReject
    \/ OpenGraphDialog \/ GraphClear \/ GraphReject
    \/ ChooseImage \/ ImageReject
    \/ (Plots < MaxPlots /\ GraphAddFunction(SomeExprs))
    \/ (Plots < MaxPlots /\ GraphAddPoints(SomePointTexts))
    \/ (edits < MaxEdits /\ LatexAccept)
    \/ (edits < MaxEdits /\ GraphAccept)
    \/ (edits < MaxEdits /\ ImageAccept)
    \/ (edits < MaxEdits /\ ScInsertLatex)
    \/ (edits < MaxEdits /\ ScInsertDiagram)
    \/ OpenDocumentFrom({""}) \/ SaveDocumentTo({""})

SpecDialog == Init /\ [][NextDialog]_vars

\* the graph dialog alone, with every expression
NextGraph ==
    \/ OpenGraphDialog \/ GraphClear \/ GraphReject
    \/ (Plots < MaxPlots /\ GraphAddFunction(Exprs))
    \/ (Plots < MaxPlots /\ GraphAddPoints(SomePointTexts))
    \/ (edits < MaxEdits /\ GraphAccept)

SpecGraph == Init /\ [][NextGraph]_vars

\* the segments a points text is put together from
PointSegments ==
    {<<"(", "1", ",", "2", ")">>,
     <<" ", "(", "2", ",", "3", ".", "5", ")">>,
     <<"3", " ", ",", " ", "1", ".", "0">>,
     <<"a", "b", "c">>,
     <<"(", "1", ",", "2">>,
     <<"(">>,
     <<>>}

\* the texts of n segments
RECURSIVE PointTextsOf(_)
PointTextsOf(n) ==
    IF n = 1 THEN PointSegments
    ELSE {text \o <<";">> \o segment :
             text \in PointTextsOf(n - 1), segment \in PointSegments}

\* texts without a semicolon: pairs that only their parentheses separate,
\* and parentheses with nothing in them
ParenTexts ==
    {<<"(", "1", ",", "2", ")", " ", "(", "3", ",", "4", ")">>,
     <<"(", "1", ",", "2", ")", "(", "3", ",", "4", ")">>,
     <<"(", ")">>}

PointTexts == UNION {PointTextsOf(n) : n \in 1..MaxPairs} \cup ParenTexts

\* every text goes onto cleared axes, the texts of SomePointTexts onto axes
\* that hold plots as well
NextPoints ==
    \/ OpenGraphDialog \/ GraphClear \/ GraphReject
    \/ (Plots = 0 /\ GraphAddPoints(PointTexts))
    \/ (Plots < MaxPlots /\ GraphAddPoints(SomePointTexts))

SpecPoints == Init /\ [][NextPoints]_vars

(* the two programs side by side: each shared operation is given to the  *)
(* bestmath.py window and to the sourcecode.py window of twin             *)

BothNewDocument ==
    /\ Running("bestmath") /\ ~twin.aborted
    /\ Len(editors) < MaxEditors
    /\ \E hook \in BOOLEAN :
          CommitBoth(new_document(World(hook)), sc_new_document(TwinWorld(hook)),
                     twin.disk, "new_document", "")
    /\ UNCHANGED <<clipboard, disk, edits>>

BothOpenDocument ==
    /\ Running("bestmath") /\ ~twin.aborted
    /\ \E path \in HtmlPaths \cup {""}, hook \in BOOLEAN :
          /\ CommitBoth(open_document(World(hook), path, ReadText(disk, path)),
                        sc_open_document(TwinWorld(hook), path, ReadText(twin.disk, path)),
                        twin.disk, "open_document", Given(path))
          /\ edits' = IF path = "" \/ ReadText(disk, path) = NoFile THEN edits
                      ELSE edits + 1
    /\ UNCHANGED <<clipboard, disk>>

BothSaveDocument ==
    /\ Running("bestmath") /\ ~twin.aborted
    /\ \E path \in {"", "doc.html"} :
          /\ disk' = IF path = "" THEN disk
                     ELSE [disk EXCEPT ![path] = save_document(Now)]
          /\ CommitBoth(Now, TwinWorld(FALSE),
                        IF path = "" THEN twin.disk
                        ELSE [twin.disk EXCEPT
                                 ![path] = sc_save_document(TwinWorld(FALSE), path)],
                        "save_document", Given(path))
    /\ UNCHANGED <<clipboard, edits>>

BothInsertLatex ==
    /\ Running("bestmath") /\ ~twin.aborted
    /\ \E dialog \in {"rejected", "empty", "invalid", "valid"} :
          /\ CommitBoth(insert_latex(Now, dialog),
                        sc_insert_latex(TwinWorld(FALSE), dialog),
                        twin.disk, "insert_latex", Given(dialog))
          /\ edits' = IF dialog = "valid" THEN edits + 1 ELSE edits
    /\ UNCHANGED <<clipboard, disk>>

NextPair ==
    \/ BothNewDocument \/ BothSaveDocument
    \/ (edits < MaxKeys /\ BothInsertLatex)
    \/ (edits < MaxKeys /\ BothOpenDocument)

SpecPair == Init /\ [][NextPair]_vars

NextInsert ==
    \/ MoveCursor
    \/ (edits < MaxKeys /\ InsertLatex)
    \/ (edits < MaxKeys /\ InsertDiagram)
    \/ (edits < MaxKeys /\ InsertImage)
    \/ (edits < MaxKeys /\ ScInsertLatex)
    \/ (edits < MaxKeys /\ ScInsertDiagram)

SpecInsert == Init /\ [][NextInsert]_vars

-----------------------------------------------------------------------------
(* Properties *)

\* the page that receives insertions and drives the preview; the single
\* editor in sourcecode.py
Buffer == IF variant = "bestmath" THEN editors[currentWidget(Now)] ELSE editor

Content(ed) == [doc |-> ed.doc, align |-> ed.align]

\* what _update_preview shows for a buffer
Projection(ed) == Preview(toHtml(ed))

DefaultNameSet == {DefaultNames[n] : n \in 1..Len(DefaultNames)}

PageOps == {"add_page", "delete_page", "select_page"}

\* C1: after any sequence of add_page, delete_page and page selections the
\* page count is at least 1, and delete_page on a document of exactly one
\* page changes nothing: not the page list, the page stack, the active page,
\* any buffer or the preview.
C1_DeleteKeepsOnePage ==
    [][/\ (variant = "bestmath" /\ last'.op \in PageOps)
            => (Len(page_list') >= 1 /\ Len(page_stack') >= 1)
       /\ (last'.op = "delete_page" /\ Len(page_list) = 1)
            => (/\ UNCHANGED <<page_list, list_row, page_stack, stack_index>>
                /\ UNCHANGED <<editors, preview>>
                /\ ~aborted' /\ raised' = raised)]_vars

\* C1 witness: delete_page ran on the startup document, which has one page
C1_Witness ==
    /\ variant = "bestmath"
    /\ last.op = "delete_page"
    /\ Len(editors) = 1
    /\ page_list = <<"Page 1">>
    /\ page_stack = <<1>>

\* C2: current_editor() never raises RuntimeError("No editor available"),
\* the preview refreshes fired in the middle of new_document, delete_page
\* and add_page included.
C2_NoEditorErrorNeverRaised == RuntimeError \notin raised

\* C3: new_document runs to completion from every reachable state and ends
\* with exactly one page, empty and active, and with the preview cleared.
C3_NewDocumentCompletes ==
    (variant = "bestmath" /\ last.op = "new_document")
        => /\ ~aborted
           /\ raised = {}
           /\ Len(page_list) = 1 /\ Len(page_stack) = 1
           /\ list_row = 0 /\ stack_index = 0
           /\ Buffer.doc = <<>>
           /\ preview = EmptyDocument

\* C4: when delete_page removes the active page at position row of a
\* document with more than one page, the new active page is the page that
\* was at position row - 1 if row > 0, else the page that becomes first;
\* the outcome is a function of the state before.
C4_DeleteSelectsPredecessor ==
    [][(variant = "bestmath" /\ last'.op = "delete_page" /\ Len(page_list) > 1)
         => LET row == stack_index
                heir == IF row > 0 THEN row - 1 ELSE 1
            IN  /\ currentWidget(Now)' = page_stack[heir + 1]
                /\ page_list'[list_row' + 1] = page_list[heir + 1]
                /\ stack_index' = (IF row > 0 THEN row - 1 ELSE 0)
                /\ list_row' = stack_index'
                /\ currentWidget(Now) \notin {page_stack'[i] : i \in 1..Len(page_stack')}]_vars

\* C4 witness: of three pages the middle one was active and was deleted, and
\* the first page is active now
C4_Witness ==
    /\ variant = "bestmath"
    /\ last.op = "delete_page"
    /\ Len(editors) = 3
    /\ page_stack = <<1, 3>>
    /\ stack_index = 0
    /\ list_row = 0

\* C5: add_page never fails; it appends exactly one new page with an empty
\* buffer at the end of the order, names it with the given title, or with a
\* synthesized default when no title is given, makes it the active page, and
\* leaves the order, names and buffers of the existing pages unchanged.
C5_AddPageAppends ==
    [][(variant = "bestmath" /\ last'.op = "add_page")
         => LET n == Len(page_list)
                id == Len(editors) + 1
            IN  /\ ~aborted' /\ raised' = raised
                /\ Len(page_list') = n + 1
                /\ SubSeq(page_list', 1, n) = page_list
                /\ (last'.input # "" => page_list'[n + 1] = last'.input)
                /\ (last'.input = "" => page_list'[n + 1] \in DefaultNameSet)
                /\ page_stack' = Append(page_stack, id)
                /\ Len(editors') = id
                /\ editors'[id] = NewEditor
                /\ \A i \in 1..Len(editors) : editors'[i] = editors[i]
                /\ stack_index' = n
                /\ list_row' = n]_vars

\* C5 witness: a second page was added under the title "Notes" and is active
C5_Witness ==
    /\ variant = "bestmath"
    /\ last.op = "add_page"
    /\ last.input = "Notes"
    /\ page_list = <<"Page 1", "Notes">>
    /\ stack_index = 1
    /\ Buffer.doc = <<>>

\* C6: the default name is `Page N`, N the 1-based creation-order number of
\* the page, not renumbered on deletion: no two live default-named pages
\* share a name.
C6_DefaultNamesDistinct ==
    \A i, j \in 1..Len(page_list) :
        (i # j /\ page_list[i] \in DefaultNameSet) => page_list[i] # page_list[j]

\* C7: after every completed operation (startup, add_page, delete_page, page
\* selection, new_document) there is exactly one active page index, and
\* 0 <= active < page count.
C7_ActiveIndexInRange ==
    (variant = "bestmath" /\ ~aborted)
        => /\ 0 <= stack_index
           /\ stack_index < Len(page_stack)
           /\ list_row = stack_index
           /\ Len(page_list) = Len(page_stack)

\* C7 witness: new_document completed on a document of several pages
C7_Witness ==
    /\ variant = "bestmath"
    /\ ~aborted
    /\ last.op = "new_document"
    /\ Len(editors) >= 3
    /\ stack_index = 0
    /\ Len(page_stack) = 1

\* C8: on completion of every successful insert_latex, insert_diagram or
\* insert_image the preview equals the serialization of the active page's
\* buffer as it is after the insertion, the new artifact included.
C8_PreviewAfterInsertion ==
    /\ (~aborted /\ last.op \in {"insert_latex", "insert_diagram", "insert_image"}
          /\ last.input \in {"valid", "accepted", "picture", "picture, no size"})
         => preview = Projection(Buffer)
    /\ (~aborted /\ last.op \in {"insert_latex", "insert_diagram", "insert_image"}
          /\ last.input \in {"valid", "accepted", "picture"})
         => /\ Buffer.pos >= 1
            /\ Buffer.doc[Buffer.pos] \in Artifacts
            /\ Len(preview.doc) = Len(Buffer.doc)
            /\ \A i \in 1..Len(Buffer.doc) :
                  ItemToken(preview.doc[i]) = ItemToken(Buffer.doc[i])
            /\ preview.doc[Buffer.pos] \in Images
            /\ ImageName(preview.doc[Buffer.pos]) = Buffer.doc[Buffer.pos]
            /\ preview.align = Buffer.align

\* C8 witness: an image was inserted centred and the preview has its
\* element, centred
C8_Witness ==
    /\ variant = "bestmath"
    /\ last.op = "insert_image"
    /\ last.input = "picture"
    /\ Buffer.doc = <<"image">>
    /\ preview = [doc |-> <<Missing("image")>>, align |-> "Center"]

\* C9: after every change of the active page (selecting another page,
\* add_page, delete_page) and after every document-level reset the preview
\* equals the projection of the buffer of the page that is active once the
\* operation has completed.
C9_PreviewAfterPageSwitch ==
    [][(~aborted'
          /\ \/ (last'.op \in PageOps /\ currentWidget(Now)' # currentWidget(Now))
             \/ last'.op = "new_document")
         => preview' = Projection(Buffer')]_vars

\* C9 witness: the active page was deleted and the preview shows the formula
\* of the page that is active now
C9_Witness ==
    /\ variant = "bestmath"
    /\ last.op = "delete_page"
    /\ Len(editors) >= 2
    /\ Buffer.doc = <<"latex">>
    /\ preview.doc = <<Missing("latex")>>

MutatingOps ==
    {"insert_latex", "insert_diagram", "insert_image", "open_document",
     "undo", "redo", "cut", "paste", "type_text"}

\* C10: the preview is refreshed on every operation that mutates the active
\* page's buffer: after artifact insertion, open_document, undo, redo, cut,
\* paste and direct text entry the preview equals the projection of the
\* active page's current content.
C10_PreviewAfterEveryMutation ==
    [][(~aborted' /\ last'.op \in MutatingOps /\ Content(Buffer') # Content(Buffer))
         => preview' = Projection(Buffer')]_vars

\* the pages, their order and names, the active page and every buffer
Document == <<page_list, list_row, page_stack, stack_index, editors, editor>>

DialogEdits == {"textChanged", "add_function", "add_points", "clear_graph"}

\* C11: edits that are not committed by insertion never touch the document:
\* typing in the LaTeX dialog, add_function, add_points and clear_graph in
\* the graph dialog, and cancelling or rejecting a LaTeX, graph,
\* image-settings or file dialog leave every page buffer and the main
\* preview unchanged and trigger no preview refresh.
C11_DialogEditsLeaveDocument ==
    [][(last'.op \in DialogEdits \/ last'.input = "cancelled")
         => UNCHANGED <<Document, preview>>]_vars

\* C11 witness: a function and points were plotted in the graph dialog
\* while the main preview still shows its startup text, which is not what
\* a refresh would show
C11_Witness ==
    /\ variant = "bestmath"
    /\ last.op = "add_points"
    /\ open_dialog.kind = "graph"
    /\ Len(open_dialog.axis) = 2
    /\ open_dialog.axis[1].artist = "line"
    /\ open_dialog.axis[2].artist = "scatter"
    /\ preview = Placeholder("bestmath")
    /\ preview # Projection(Buffer)

\* C12: if rendering the formula raises during insert_latex (in either
\* variant), the operation shows the error notification and returns with
\* the active page's buffer, the page collection, the active index and the
\* preview as they were.
C12_FailedFormulaLeavesDocument ==
    [][(last'.op = "insert_latex" /\ last'.input = "invalid")
         => /\ last'.notice = "latex_error"
            /\ UNCHANGED <<Document, preview>>
            /\ raised' = raised
            /\ ~aborted']_vars

\* C12 witness: a formula that does not render was refused on the second
\* page of a document
C12_Witness ==
    /\ last.op = "insert_latex"
    /\ last.input = "invalid"
    /\ last.notice = "latex_error"
    /\ variant = "bestmath"
    /\ Len(page_list) = 2
    /\ stack_index = 1
    /\ ~aborted

FallibleOps ==
    {"insert_latex", "insert_diagram", "insert_image", "add_function", "add_points",
     "open_document"}

\* C13: in every operation that renders, loads or parses (insert_latex,
\* insert_diagram, insert_image, add_function, add_points, open_document) a
\* failure of the render, load, evaluate, plot, read or parse step is
\* caught inside the operation and reported as a notification: no
\* exception escapes, the document is left unchanged and the program goes
\* on.
C13_FailuresAreCaught ==
    [][last'.op \in FallibleOps
         => /\ raised' = raised
            /\ ~aborted'
            /\ (last'.notice # "" => UNCHANGED <<Document, preview>>)]_vars

InsertOps == {"insert_latex", "insert_diagram", "insert_image"}

\* the inputs with which an insertion handler gets to cursor.insertImage
\* with an image
Committed == {"valid", "accepted", "picture"}

\* C14: insertion is cursor-relative and advances the cursor: the artifact
\* goes in at the cursor, the rest of the buffer stays, and the cursor then
\* sits immediately after the artifact, so an insertion that follows with
\* no cursor movement in between lands right after it.
C14_InsertionAdvancesCursor ==
    [][(last'.op \in InsertOps /\ last'.input \in Committed)
         => /\ Buffer'.pos = Buffer.pos + 1
            /\ Buffer'.doc[Buffer'.pos] \in Artifacts
            /\ Buffer'.doc = InsertSeqAt(Buffer.doc, Buffer.pos,
                                         <<Buffer'.doc[Buffer'.pos]>>)
            /\ (last.op \in InsertOps /\ last.input \in Committed)
                 => /\ Buffer'.doc[Buffer.pos] = Buffer.doc[Buffer.pos]
                    /\ Buffer'.pos > Buffer.pos]_vars

\* C14 witness: a formula, then a graph right after it, and the cursor
\* behind both
C14_Witness ==
    /\ variant = "bestmath"
    /\ last.op = "insert_diagram"
    /\ Buffer.doc = <<"latex", "graph">>
    /\ Buffer.pos = 2

\* C15: only the active page receives insertions: a successful
\* insert_latex, insert_diagram or insert_image changes the buffer of the
\* page that is active and leaves the number, order and names of the pages,
\* the active index and the buffers of all other pages unchanged.
C15_OnlyActivePageReceives ==
    [][(variant = "bestmath" /\ last'.op \in InsertOps /\ last'.input \in Committed)
         => /\ UNCHANGED <<page_list, list_row, page_stack, stack_index>>
            /\ Len(editors') = Len(editors)
            /\ \A i \in 1..Len(editors) :
                  i # currentWidget(Now) => editors'[i] = editors[i]
            /\ Content(Buffer') # Content(Buffer)]_vars

\* C15 witness: a graph went into the first of three pages, the two pages
\* behind it are as they were made
C15_Witness ==
    /\ variant = "bestmath"
    /\ last.op = "insert_diagram"
    /\ Len(page_stack) = 3
    /\ stack_index = 0
    /\ Buffer.doc = <<"graph">>
    /\ editors[page_stack[2]] = NewEditor
    /\ editors[page_stack[3]] = NewEditor

\* what save_document is to write to path: the active page's buffer as
\* markup, or as plain text for sourcecode.py's text files
Serialization(path) ==
    IF variant = "sourcecode" /\ path \in TextPaths THEN toPlainText(Buffer)
    ELSE toHtml(Buffer)

SavedPaths == {"doc.html", "doc.txt"}

\* C16: round trip: saving the active page with save_document and loading
\* that output back with open_document yields a buffer with the same
\* visible text and image content as before the save.
C16_SaveLoadRoundTrip ==
    [][(/\ last'.op = "open_document"
        /\ last'.input \in SavedPaths
        /\ ~aborted'
        /\ disk[last'.input] = Serialization(last'.input))
         => Buffer'.doc = Buffer.doc]_vars

\* C17: loading malformed markup fails: open_document on a file whose
\* content is not well-formed markup ends in an error outcome and leaves
\* the active page's buffer and the preview as they were.
C17_MalformedMarkupRejected ==
    [][(last'.op = "open_document" /\ last'.input = "broken.html")
         => /\ (last'.notice # "" \/ raised' # raised \/ aborted')
            /\ Content(Buffer') = Content(Buffer)
            /\ preview' = preview]_vars

\* C18: persistence touches exactly the active page: save_document writes
\* the serialization of the active page's buffer and changes no document
\* state; open_document replaces the active page's buffer only and leaves
\* the page count, order and names, the active index and the buffers of all
\* other pages unchanged.
C18_PersistenceTouchesActivePage ==
    [][/\ last'.op = "save_document"
            => /\ UNCHANGED <<Document, preview>>
               /\ \A path \in DOMAIN disk :
                     disk'[path] = IF path = last'.input THEN Serialization(path)
                                   ELSE disk[path]
       /\ last'.op = "open_document"
            => /\ UNCHANGED <<page_list, list_row, page_stack, stack_index, disk>>
               /\ Len(editors') = Len(editors)
               /\ \A i \in 1..Len(editors) :
                     i # currentWidget(Now) => editors'[i] = editors[i]]_vars

\* C18 witness: the second of two pages was saved, the first page then took
\* the content of sample.html, and the second page is as it was
C18_Witness ==
    /\ variant = "bestmath"
    /\ last.op = "open_document"
    /\ last.input = "sample.html"
    /\ Len(page_stack) = 2
    /\ stack_index = 0
    /\ Buffer.doc = <<"a", Missing("latex")>>
    /\ Buffer.align = "Center"
    /\ editors[page_stack[2]] = NewEditor
    /\ disk["doc.html"] = toHtml(NewEditor)

\* a decimal numeral: digits with at most one point among them
IsNumber(text) ==
    /\ replace(text, ".") # <<>>
    /\ IsDigits(replace(text, "."))
    /\ Count(text, ".") <= 1

\* two numerals separated by a comma, blanks around them allowed
IsPairOfNumbers(text) ==
    LET parts == split(text, ",")
    IN  Len(parts) = 2 /\ IsNumber(strip(parts[1])) /\ IsNumber(strip(parts[2]))

\* a segment without the parentheses that wrap it, if a pair of them does
Unwrapped(segment) ==
    LET t == strip(segment)
    IN  IF Len(t) >= 2 /\ t[1] = "(" /\ t[Len(t)] = ")" THEN SubSeq(t, 2, Len(t) - 1)
        ELSE t

\* a well-formed pair, optionally wrapped in parentheses
WellFormedPair(segment) == IsPairOfNumbers(Unwrapped(segment))

\* the point a well-formed pair writes
PairValue(segment) ==
    LET parts == split(Unwrapped(segment), ",")
    IN  <<float(parts[1]).value, float(parts[2]).value>>

\* a segment with every parenthesis taken out
Bare(segment) == strip(replace(replace(segment, "("), ")"))

\* the points of a text of well-formed pairs, as one scatter plot
Scatter(segments) ==
    [artist |-> "scatter",
     data |-> [i \in 1..Len(segments) |-> PairValue(segments[i])]]

\* C19: add_points on text made of n >= 1 semicolon-separated
\* well-formed pairs, each optionally wrapped in parentheses, plots exactly
\* those n points in input order; on text in which any segment is not a
\* well-formed pair it reports a point-format error and plots no point at
\* all.
C19_PointsAllOrNothing ==
    [][(last'.op = "add_points" /\ strip(open_dialog'.points_input) # <<>>)
         => \A segments \in {split(strip(open_dialog'.points_input), ";")} :
                IF \A i \in 1..Len(segments) : WellFormedPair(segments[i])
                THEN /\ open_dialog'.axis = Append(open_dialog.axis, Scatter(segments))
                     /\ last'.notice = ""
                ELSE /\ last'.notice = "Invalid points format."
                     /\ open_dialog'.axis = open_dialog.axis]_vars

\* the size the transform is to give: both targets as they are, one target
\* with the other side in proportion (to the nearest pixel), none the source
ScaledSize(src, width, height) ==
    CASE width # NoDim /\ height # NoDim -> <<width, height>>
      [] width # NoDim /\ height = NoDim -> <<width, RoundDiv(src[2] * width, src[1])>>
      [] width = NoDim /\ height # NoDim -> <<RoundDiv(src[1] * height, src[2]), height>>
      [] OTHER                           -> src

\* C20: for all positive integer targets and every source image of size
\* w x h, the image inserted is width x height when both are given, has the
\* given width (height) and the other side scaled by width/w (height/h) when
\* one is given, and is w x h when neither is given.
C20_TransformedSize ==
    (last.op = "insert_image" /\ last.image # NoImage)
        => LET src    == last.image[1]
               width  == last.image[2]
               height == last.image[3]
               size   == last.image[4]
           IN  (width >= 0 /\ height >= 0) => size = ScaledSize(src, width, height)

\* the curves on the open graph dialog's axes: what add_function drew
Curves ==
    IF open_dialog.kind # "graph" THEN {}
    ELSE {open_dialog.axis[i] : i \in {k \in 1..Len(open_dialog.axis) :
                                          open_dialog.axis[k].artist \in {"line", "fill"}}}

\* the magnitude of a sample
Abs(n) == IF n < 0 THEN 0 - n ELSE n

\* C21: every add_function evaluates the expression on the same fixed grid
\* of at least 300 evenly spaced x-values spanning [-10, 10] with both
\* endpoints included, independent of the expression and of earlier calls;
\* for sin(x) the curve passes through (0,0) within one sample spacing
\* (a sample lies within one spacing of x = 0, and there |sin x| <= |x|).
\* Samples are in units of 1 / (n - 1).
C21_FixedSampleGrid ==
    /\ \A c \in Curves :
          LET n == Len(c.x)
          IN  /\ n >= 300
              /\ c.x[1] = (0 - 10) * (n - 1)
              /\ c.x[n] = 10 * (n - 1)
              /\ \A i \in 1..(n - 2) : c.x[i + 1] - c.x[i] = c.x[i + 2] - c.x[i + 1]
              /\ c.x[2] > c.x[1]
              /\ (c.data = <<"sin", "(", "x", ")">>
                    => \E i \in 1..n : Abs(c.x[i]) <= c.x[2] - c.x[1])
    /\ \A c, d \in Curves : c.x = d.x

\* C21 witness: sin(x) was drawn after another curve
C21_Witness ==
    /\ open_dialog.kind = "graph"
    /\ last.op = "add_function"
    /\ Len(open_dialog.axis) = 2
    /\ open_dialog.axis[1].artist = "line"
    /\ open_dialog.axis[1].data = <<"pow", "(", "x", ",", "2", ")">>
    /\ open_dialog.axis[2].artist = "line"
    /\ open_dialog.axis[2].data = <<"sin", "(", "x", ")">>

\* the gridlines and the two axes through the origin are on the canvas
ReferenceDrawn(d) == d.grid /\ d.reference = {"axhline", "axvline"}

\* C22: clear_graph always succeeds and is idempotent: after it the canvas
\* holds only the gridlines and the x/y axes through the origin, whatever
\* was plotted before, and a second clear_graph yields the same canvas; in
\* every reachable state of the graph dialog the gridlines and both axes are
\* present.
C22_ClearGraphIdempotent ==
    /\ [](open_dialog.kind = "graph" => ReferenceDrawn(open_dialog))
    /\ [][last'.op = "clear_graph"
            => /\ open_dialog'.axis = <<>>
               /\ ReferenceDrawn(open_dialog')
               /\ raised' = raised /\ ~aborted' /\ last'.notice = ""
               /\ (last.op = "clear_graph" => open_dialog' = open_dialog)]_vars

\* C22 witness: the axes were cleared after sin(x) and points had been
\* entered
C22_Witness ==
    /\ open_dialog.kind = "graph"
    /\ last.op = "clear_graph"
    /\ open_dialog.function_input = <<"sin", "(", "x", ")">>
    /\ open_dialog.points_input # <<>>
    /\ open_dialog.axis = <<>>

\* the pages that delete_page or new_document removed
RemovedPages == {i \in DOMAIN editors : ~editors[i].alive}

\* the pages of the stack
StackedPages == {page_stack[k] : k \in 1..Len(page_stack)}

\* C23: once a page has been removed by delete_page or new_document it is
\* never dereferenced again: it is not in the stack that current_editor()
\* reads, no later operation writes its buffer or puts it back, and a
\* preview that changes is derived from a page of the stack (or blank).
C23_RemovedPagesNeverUsed ==
    /\ [](variant = "bestmath" => RemovedPages \cap StackedPages = {})
    /\ [][variant = "bestmath"
            => /\ \A i \in RemovedPages :
                     editors'[i] = editors[i] /\ i \notin StackedPages'
               /\ (preview' # preview /\ ~aborted')
                     => \/ preview' = EmptyDocument
                        \/ \E i \in StackedPages' : preview' = Projection(editors'[i])]_vars

\* C23 witness: the first page was deleted, and a formula then went into
\* the page that is left
C23_Witness ==
    /\ variant = "bestmath"
    /\ last.op = "insert_latex" /\ last.input = "valid"
    /\ 1 \in RemovedPages
    /\ page_stack = <<2>>
    /\ editors[2].doc = <<"latex">>

\* the allow-list of the function evaluator
SafeVocabulary == {"x", "np", "sin", "cos", "tan", "sqrt", "log", "exp", "abs"}

\* C24: the graph function evaluator is restricted to the safe vocabulary:
\* an expression that references any name outside the allow-list is
\* rejected with the invalid-expression notification, and the set of
\* plotted curves and point sets is unchanged.
C24_OnlySafeVocabulary ==
    [][(/\ last'.op = "add_function"
        /\ ~(Names(strip(open_dialog'.function_input)) \subseteq SafeVocabulary))
         => /\ last'.notice = "Invalid function expression."
            /\ open_dialog'.axis = open_dialog.axis]_vars

\* the pieces of a text that end at a closing parenthesis, blank ones left
\* out
ClosedPieces(text) ==
    SelectSeq(split(text, ")"), LAMBDA piece : strip(piece) # <<>>)

\* a text in the fallback form: pairs in parentheses with nothing but
\* blanks between them
IsFallbackForm(text) ==
    /\ ClosedPieces(text) # <<>>
    /\ text[Len(text)] = ")"
    /\ \A k \in 1..Len(ClosedPieces(text)) :
          LET piece == strip(ClosedPieces(text)[k])
          IN  piece[1] = "(" /\ IsPairOfNumbers(Tail(piece))

\* the points a text in the fallback form writes
FallbackScatter(text) ==
    [artist |-> "scatter",
     data |-> [k \in 1..Len(ClosedPieces(text)) |->
                  PairValue(ClosedPieces(text)[k] \o <<")">>)]]

\* C25: add_points accepts, as a fallback, pairs separated only by their
\* closing parentheses ("(1,2) (3,4)" or "(1,2)(3,4)"): text of n
\* well-formed pairs in the fallback form plots exactly those n points.
C25_FallbackGrammarPlots ==
    [][last'.op = "add_points"
         => \A text \in {strip(open_dialog'.points_input)} :
                (text # <<>> /\ IsFallbackForm(text))
                    => /\ open_dialog'.axis =
                            Append(open_dialog.axis, FallbackScatter(text))
                       /\ last'.notice = ""]_vars

\* neither grammar finds a pair in the text
NoPairIn(text) ==
    /\ \A k \in 1..Len(split(text, ";")) : ~WellFormedPair(split(text, ";")[k])
    /\ \A k \in 1..Len(split(text, ")")) : ~IsPairOfNumbers(Bare(split(text, ")")[k]))

\* C26: for every non-empty point text from which no pair can be parsed
\* after both grammars are tried ("()" or ";"), add_points fails with the
\* point-format error notification; it never returns silently with nothing
\* plotted and no error reported.
C26_NoPairIsAnError ==
    [][last'.op = "add_points"
         => \A text \in {strip(open_dialog'.points_input)} :
                (text # <<>> /\ NoPairIn(text))
                    => last'.notice = "Invalid points format."]_vars

\* the operations the two programs share
SharedOps == {"new_document", "open_document", "save_document", "insert_latex"}

\* what a preview pane shows, the two startup texts taken as one
Shown(p) ==
    IF p \in {Placeholder("bestmath"), Placeholder("sourcecode")}
    THEN [doc |-> <<"startup text">>, align |-> "Left"] ELSE p

\* C27: the two variants differ only in their insertion primitives: for
\* every sequence of the operations they share (new_document, open_document
\* of an .html file, save_document, insert_latex), sourcecode.py and
\* bestmath.py kept to one page end with the same editor buffer and the
\* same preview content.
C27_VariantsAgree ==
    [][(variant = "bestmath" /\ last'.op \in SharedOps)
         => /\ aborted' = twin'.aborted
            /\ ~aborted' => /\ Content(Buffer') = Content(twin'.editor)
                            /\ Shown(preview') = Shown(twin'.preview)]_vars

\* the list and the stack changed at the same position: nothing moved, or
\* one entry was appended to both, or the entries at one position left both,
\* or both were replaced by a single new entry
SamePositionChanged ==
    \/ page_list' = page_list /\ page_stack' = page_stack
    \/ /\ Len(page_list') = Len(page_list) + 1
       /\ SubSeq(page_list', 1, Len(page_list)) = page_list
       /\ Len(page_stack') = Len(page_stack) + 1
       /\ SubSeq(page_stack', 1, Len(page_stack)) = page_stack
       /\ page_stack'[Len(page_stack')] \notin StackedPages
    \/ \E r \in 1..Len(page_list) :
          /\ Len(page_list) = Len(page_stack)
          /\ page_list' = RemoveAt(page_list, r)
          /\ page_stack' = RemoveAt(page_stack, r)
    \/ /\ last'.op = "new_document"
       /\ Len(page_list') = 1 /\ Len(page_stack') = 1
       /\ page_stack'[1] \notin StackedPages

\* C28: the page-name list and the editor stack stay aligned: after every
\* completed add_page, delete_page, page selection and new_document the
\* list and the stack have the same number of entries, the list's current
\* row equals the stack's current index, and row i of the list names the
\* editor at index i of the stack (every operation changes both at the same
\* position).
C28_ListAndStackAligned ==
    /\ []((variant = "bestmath" /\ ~aborted)
            => /\ Len(page_list) = Len(page_stack)
               /\ list_row = stack_index)
    /\ [][(variant = "bestmath" /\ ~aborted') => SamePositionChanged]_vars

\* C28 witness: the middle page of three was deleted; the first and the
\* third are left, in the list and in the stack, and the first is selected
\* in both
C28_Witness ==
    /\ variant = "bestmath"
    /\ last.op = "delete_page"
    /\ page_stack = <<1, 3>>
    /\ page_list = <<"Page 1", "Page 3">>
    /\ list_row = 0 /\ stack_index = 0

\* C29: delete_page removes exactly the page that is active when it is
\* invoked and nothing else: when the count is greater than 1 the count
\* decreases by exactly 1, and every remaining page keeps its name, its
\* buffer content and its order relative to the other remaining pages.
C29_DeleteRemovesOnlyActivePage ==
    [][(variant = "bestmath" /\ last'.op = "delete_page" /\ Len(page_list) > 1)
         => /\ Len(page_list') = Len(page_list) - 1
            /\ page_stack' = RemoveAt(page_stack, stack_index + 1)
            /\ page_list' = RemoveAt(page_list, stack_index + 1)
            /\ \A i \in StackedPages' : editors'[i] = editors[i]
            /\ ~editors'[page_stack[stack_index + 1]].alive]_vars

\* C29 witness: the middle page of three was deleted; the first page still
\* holds its formula and the third is still behind it
C29_Witness ==
    /\ variant = "bestmath"
    /\ last.op = "delete_page"
    /\ page_list = <<"Page 1", "Page 3">>
    /\ page_stack = <<1, 3>>
    /\ editors[1].doc = <<"latex">>
    /\ ~editors[2].alive
====
